---- MODULE Spec2Model ----
(***************************************************************************)
(* bsdmon (src/src/main.c): a one-shot system monitor.  main() prints a    *)
(* banner, samples the CPU counters twice one second apart, computes the   *)
(* usage, then reports memory, disk and the network interfaces.            *)
(*                                                                         *)
(* The program is sequential.  Its state is main's position (pc), main's   *)
(* locals, the two output streams, the platform handles currently held,    *)
(* and the exit status.  What the kernel answers to each query is the      *)
(* variable host, fixed when the run starts.  The build (#ifdef __linux__  *)
(* or __FreeBSD__) is the variable platform.                               *)
(*                                                                         *)
(* unsigned long and unsigned long long are both 64 bits wide on the       *)
(* supported builds.  An unsigned 64-bit value x is written here as the    *)
(* integer with the same 64 bits in two's complement: x itself when        *)
(* x < 2^63, and x - 2^64 otherwise (-1 stands for 2^64 - 1).  Addition,   *)
(* subtraction and multiplication modulo 2^64 are then the integer         *)
(* operations, as long as the results stay small, which the inputs drawn   *)
(* here guarantee; only the unsigned order (ULess) and the conversion to   *)
(* double (ToDouble) look at the sign.                                     *)
(*                                                                         *)
(* A C double is [kind, num, den, exp], standing for num / (den * 2^exp),  *)
(* or for NaN / Inf when a division by zero produced it.  A small          *)
(* unsigned value converts exactly; one within 1024 below 2^64 rounds to   *)
(* 2^64.  IEEE rounding is monotone and 0, 1 and 100 are representable,    *)
(* so comparisons with 0.0 and 100.0 and between two values agree with     *)
(* the quotients.                                                          *)
(***************************************************************************)
EXTENDS Integers, Sequences, FiniteSets, TLC

VARIABLES platform, host, pc, prev, curr, cpu_usage, mem, disk,
          out, err, held, calls, status

vars == <<platform, host, pc, prev, curr, cpu_usage, mem, disk,
          out, err, held, calls, status>>

\* ------------------------------------------------------------------ bounds
\* Largest small counter value drawn in InitCalc.
MaxTick == 2
\* Largest kB figure drawn in InitMem.
MaxKb == 3
\* Longest /proc/meminfo table drawn in InitMem.
MaxLines == 2
\* Most cores kern.cp_times describes in InitCpuTimes.
MaxCpus == 2
\* Longest getifaddrs list drawn in InitNet.
MaxIfaces == 3

\* ------------------------------------------------------- program constants
CPUSTATES == 5
EXIT_SUCCESS == 0
EXIT_FAILURE == 1

Platforms == {"linux", "freebsd"}

Min(a, b) == IF a < b THEN a ELSE b
Max(a, b) == IF a > b THEN a ELSE b

\* ---------------------------------------------------- unsigned integers
\* a < b as unsigned 64-bit values: a value written negative is above
\* every value written non-negative.
ULess(a, b) ==
    \/ a >= 0 /\ b < 0
    \/ (a >= 0) = (b >= 0) /\ a < b

ULeq(a, b) == a = b \/ ULess(a, b)

\* ----------------------------------------------------------------- doubles
NaN == [kind |-> "nan", num |-> 0, den |-> 1, exp |-> 0]
Inf == [kind |-> "inf", num |-> 0, den |-> 1, exp |-> 0]
\* The literal 0.0.
DZero == [kind |-> "fin", num |-> 0, den |-> 1, exp |-> 0]
\* (double)u for an unsigned 64-bit u, as m * 2^e: exact for a small u,
\* 2^64 for a u just below 2^64.
ToDouble(u) == IF u >= 0 THEN [m |-> u, e |-> 0] ELSE [m |-> 1, e |-> 64]
\* (double)a / b for unsigned integers a and b: x/0 is Inf, 0/0 is NaN.
DDiv(a, b) ==
    IF b = 0
    THEN (IF a = 0 THEN NaN ELSE Inf)
    ELSE LET x == ToDouble(a)
             y == ToDouble(b)
         IN  [kind |-> "fin", num |-> x.m, den |-> y.m, exp |-> y.e - x.e]
\* d * 100.0
DTimes100(d) == IF d.kind = "fin" THEN [d EXCEPT !.num = 100 * d.num] ELSE d
\* (double)a / 1024.0, k times over.
DKibi(a, k) ==
    LET x == ToDouble(a) IN
    [kind |-> "fin", num |-> x.m, den |-> 1, exp |-> 10 * k - x.e]

IsHundred(d) == d.kind = "fin" /\ d.exp = 0 /\ d.num = 100 * d.den
\* 0.0 <= d <= 100.0.  The exponents that occur are 0, 64 (a small value
\* over 2^64) and -64 (2^64 over a small value).
InPercentRange(d) ==
    /\ d.kind = "fin"
    /\ d.num >= 0
    /\ d.exp = 0 => d.num <= 100 * d.den
    /\ d.exp < 0 => d.num = 0
\* a <= b for two finite non-negative values; exponents that differ,
\* differ by 64.
DLeq(a, b) ==
    /\ a.kind = "fin" /\ b.kind = "fin"
    /\ IF a.exp = b.exp
       THEN a.num * b.den <= b.num * a.den
       ELSE IF a.exp > b.exp
            THEN a.num = 0 \/ b.num > 0
            ELSE a.num = 0

\* ----------------------------------------------------------------- handles
Acquire(h, S) == S \cup {h}
Release(h, S) == S \ {h}

\* An automatic variable main has not assigned yet.
Uninit == [uninit |-> TRUE]

\* ------------------------------------------------------- CPU collector
\* sscanf(buf, "cpu  %llu %llu %llu %llu", ...) on a line
\* [prefix, nums, ended]: prefix says whether the text starts with "cpu",
\* nums are the numbers that follow it, and ended says whether the text
\* ends at the point where the scan stops (inside the prefix when it does
\* not match, else after the last number).  The result is the number of
\* fields converted; when there is none it is EOF (-1) if the text ran
\* out, and 0 if a character did not match.
sscanf_cpu(line) ==
    IF line.prefix /\ Len(line.nums) > 0
    THEN Min(Len(line.nums), 4)
    ELSE IF line.ended
         THEN -1
         ELSE 0

\* get_cpu_times, __linux__.  in = [fopen_ok, fgets_ok, line]: whether fopen
\* and fgets succeed, and the first line of /proc/stat.  h0 is the set of
\* handles held at the call; the result carries the set held at the return.
get_cpu_times_linux(in, h0) ==
    IF ~in.fopen_ok
    THEN [ret |-> -1, times |-> Uninit, held |-> h0,
          err |-> <<"fopen /proc/stat">>]
    ELSE LET h1 == Acquire("/proc/stat", h0) IN
         IF ~in.fgets_ok
         THEN [ret |-> -1, times |-> Uninit,
               held |-> Release("/proc/stat", h1),
               err |-> <<"fgets">>]
         ELSE LET h2 == Release("/proc/stat", h1) IN
              IF sscanf_cpu(in.line) < 4
              THEN [ret |-> -1, times |-> Uninit, held |-> h2,
                    err |-> <<"Failed to parse /proc/stat cpu line">>]
              ELSE [ret |-> 0,
                    times |-> [user |-> in.line.nums[1],
                               nice |-> in.line.nums[2],
                               system |-> in.line.nums[3],
                               idle |-> in.line.nums[4]],
                    held |-> h2, err |-> <<>>]

\* The aggregation loop of the __FreeBSD__ get_cpu_times: bucket k (0..4)
\* summed over the first n cores of the stride-5 array, in 64-bit
\* unsigned arithmetic.
RECURSIVE SumBucket(_, _, _)
SumBucket(cp_times, k, n) ==
    IF n = 0
    THEN 0
    ELSE SumBucket(cp_times, k, n - 1)
         + cp_times[(n - 1) * CPUSTATES + k + 1]

\* get_cpu_times, __FreeBSD__.  in = [size_ok, nlongs, malloc_ok, fill_ok,
\* cp_times]: nlongs is len / sizeof(long) as the size query reports it,
\* cp_times the buffer as the fill query leaves it.
get_cpu_times_freebsd(in, h0) ==
    IF ~in.size_ok
    THEN [ret |-> -1, times |-> Uninit, held |-> h0,
          err |-> <<"sysctl (get size of kern.cp_times)">>]
    ELSE LET num_entries == in.nlongs
             num_cpus == num_entries \div CPUSTATES
         IN  IF ~in.malloc_ok
             THEN [ret |-> -1, times |-> Uninit, held |-> h0,
                   err |-> <<"malloc">>]
             ELSE LET h1 == Acquire("cp_times", h0) IN
                  IF ~in.fill_ok
                  THEN [ret |-> -1, times |-> Uninit,
                        held |-> Release("cp_times", h1),
                        err |-> <<"sysctl (get kern.cp_times)">>]
                  ELSE [ret |-> 0,
                        times |->
                            [user |-> SumBucket(in.cp_times, 0, num_cpus),
                             nice |-> SumBucket(in.cp_times, 1, num_cpus),
                             system |-> SumBucket(in.cp_times, 2, num_cpus),
                             intr |-> SumBucket(in.cp_times, 3, num_cpus),
                             idle |-> SumBucket(in.cp_times, 4, num_cpus)],
                        held |-> Release("cp_times", h1),
                        err |-> <<>>]

\* The get_cpu_times the build selects.
get_cpu_times(plat, in, h0) ==
    IF plat = "linux"
    THEN get_cpu_times_linux(in, h0)
    ELSE get_cpu_times_freebsd(in, h0)

\* ------------------------------------------------------- usage estimator
Active(plat, t) ==
    IF plat = "freebsd"
    THEN t.user + t.nice + t.system + t.intr
    ELSE t.user + t.nice + t.system

Total(plat, t) == Active(plat, t) + t.idle

TotalDelta(plat, p, c) == Total(plat, c) - Total(plat, p)
ActiveDelta(plat, p, c) == Active(plat, c) - Active(plat, p)

\* calc_cpu_usage dividing by the idle delta instead of the total delta.
calc_cpu_usage_idle(plat, p, c) ==
    LET total_delta == TotalDelta(plat, p, c)
        active_delta == ActiveDelta(plat, p, c)
        idle_delta == c.idle - p.idle
    IN  IF total_delta = 0
        THEN DZero
        ELSE DTimes100(DDiv(active_delta, idle_delta))

\* calc_cpu_usage without its zero-delta return.
calc_cpu_usage_noguard(plat, p, c) ==
    LET total_delta == TotalDelta(plat, p, c)
        active_delta == ActiveDelta(plat, p, c)
    IN  DTimes100(DDiv(active_delta, total_delta))

\* calc_cpu_usage returning the fraction, not the percentage.
calc_cpu_usage_fraction(plat, p, c) ==
    LET total_delta == TotalDelta(plat, p, c)
        active_delta == ActiveDelta(plat, p, c)
    IN  IF total_delta = 0
        THEN DZero
        ELSE DDiv(active_delta, total_delta)

\* calc_cpu_usage: the usage in percent between two samples.
calc_cpu_usage(plat, p, c) ==
    LET total_delta == TotalDelta(plat, p, c)
        active_delta == ActiveDelta(plat, p, c)
    IN  IF total_delta = 0
        THEN DZero
        ELSE DTimes100(DDiv(active_delta, total_delta))

\* ------------------------------------------------------ memory collector
\* The fgets/sscanf loop over /proc/meminfo: a MemTotal line sets
\* mem_total, a MemAvailable line sets mem_available, the last one wins.
RECURSIVE scan_meminfo(_, _, _)
scan_meminfo(lines, mem_total, mem_available) ==
    IF lines = <<>>
    THEN [mem_total |-> mem_total, mem_available |-> mem_available]
    ELSE LET l == Head(lines) IN
         IF l.key = "MemTotal"
         THEN scan_meminfo(Tail(lines), l.kb, mem_available)
         ELSE IF l.key = "MemAvailable"
              THEN scan_meminfo(Tail(lines), mem_total, l.kb)
              ELSE scan_meminfo(Tail(lines), mem_total, mem_available)

NoStat == [used_gb |-> Uninit, total_gb |-> Uninit, percent_used |-> Uninit]

\* get_memory_usage, __linux__.  in = [fopen_ok, lines].
get_memory_usage_linux(in, h0) ==
    IF ~in.fopen_ok
    THEN [ret |-> -1, stat |-> NoStat, held |-> h0,
          err |-> <<"fopen /proc/meminfo">>]
    ELSE LET h1 == Acquire("/proc/meminfo", h0)
             m == scan_meminfo(in.lines, 0, 0)
             h2 == Release("/proc/meminfo", h1)
         IN  IF m.mem_total = 0
             THEN [ret |-> -1, stat |-> NoStat, held |-> h2,
                   err |-> <<"Failed to get MemTotal">>]
             ELSE LET mem_used == m.mem_total - m.mem_available
                  IN  [ret |-> 0,
                       stat |->
                           [used_gb |-> DKibi(mem_used, 2),
                            total_gb |-> DKibi(m.mem_total, 2),
                            percent_used |->
                                DTimes100(DDiv(mem_used, m.mem_total))],
                       held |-> h2, err |-> <<>>]

\* get_memory_usage, __FreeBSD__.  in = [physmem_ok, total_mem, page_size,
\* free_ok, free_pages].
get_memory_usage_freebsd(in, h0) ==
    IF ~in.physmem_ok
    THEN [ret |-> -1, stat |-> NoStat, held |-> h0,
          err |-> <<"sysctl hw.physmem">>]
    ELSE IF in.page_size < 0
    THEN [ret |-> -1, stat |-> NoStat, held |-> h0,
          err |-> <<"sysconf _SC_PAGESIZE">>]
    ELSE IF ~in.free_ok
    THEN [ret |-> -1, stat |-> NoStat, held |-> h0,
          err |-> <<"sysctl vm.stats.vm.v_free_count">>]
    ELSE LET free_mem == in.free_pages * in.page_size
             used_mem == IF ULess(free_mem, in.total_mem)
                         THEN in.total_mem - free_mem
                         ELSE 0
         IN  [ret |-> 0,
              stat |-> [used_gb |-> DKibi(used_mem, 3),
                        total_gb |-> DKibi(in.total_mem, 3),
                        percent_used |->
                            DTimes100(DDiv(used_mem, in.total_mem))],
              held |-> h0, err |-> <<>>]

get_memory_usage(plat, in, h0) ==
    IF plat = "linux"
    THEN get_memory_usage_linux(in, h0)
    ELSE get_memory_usage_freebsd(in, h0)

\* -------------------------------------------------------- disk collector
\* get_disk_usage.  in = [ok, f_blocks, f_frsize, f_bfree] from statvfs("/").
get_disk_usage(in, h0) ==
    IF ~in.ok
    THEN [ret |-> -1, stat |-> NoStat, held |-> h0, err |-> <<"statvfs">>]
    ELSE LET total == in.f_blocks * in.f_frsize
             free == in.f_bfree * in.f_frsize
             used == total - free
         IN  [ret |-> 0,
              stat |-> [used_gb |-> DKibi(used, 3),
                        total_gb |-> DKibi(total, 3),
                        percent_used |->
                            IF total # 0
                            THEN DTimes100(DDiv(used, total))
                            ELSE DZero],
              held |-> h0, err |-> <<>>]

\* --------------------------------------------------- network interfaces
\* One getifaddrs entry: [ifa_name, ifa_addr, loopback, ifa_netmask, ntop].
\* ifa_addr is "NULL" or the address family; loopback is IFF_LOOPBACK in
\* ifa_flags; ifa_netmask is "NULL" or "set"; ntop says which inet_ntop
\* call, if any, returns NULL.
IfaceLine(ifa) == [sec |-> "iface", name |-> ifa.ifa_name]

\* The for loop of print_network_interfaces: the lines it prints, and
\* whether it dies on the way.  The netmask is converted with no NULL
\* test: inet_ntop reads through &mask->sin_addr, and with ifa_netmask
\* NULL the process is killed by SIGSEGV.
RECURSIVE walk_ifaddrs(_)
walk_ifaddrs(list) ==
    IF list = <<>>
    THEN [lines |-> <<>>, crashed |-> FALSE]
    ELSE LET ifa == Head(list) IN
         IF ifa.ifa_addr = "NULL"
         THEN walk_ifaddrs(Tail(list))
         ELSE IF ifa.ifa_addr # "AF_INET"
         THEN walk_ifaddrs(Tail(list))
         ELSE IF ifa.loopback
         THEN walk_ifaddrs(Tail(list))
         ELSE IF ifa.ntop = "ip_fail"
         THEN walk_ifaddrs(Tail(list))
         ELSE IF ifa.ifa_netmask = "NULL"
         THEN [lines |-> <<>>, crashed |-> TRUE]
         ELSE IF ifa.ntop = "mask_fail"
         THEN walk_ifaddrs(Tail(list))
         ELSE LET rest == walk_ifaddrs(Tail(list)) IN
              [lines |-> <<IfaceLine(ifa)>> \o rest.lines,
               crashed |-> rest.crashed]

\* print_network_interfaces.  in = [ok, list] from getifaddrs.  When the
\* walk dies, freeifaddrs is never reached.
print_network_interfaces(in, h0) ==
    IF ~in.ok
    THEN [out |-> <<>>, held |-> h0, err |-> <<"getifaddrs">>,
          crashed |-> FALSE]
    ELSE LET h1 == Acquire("ifaddr", h0)
             w == walk_ifaddrs(in.list)
         IN  [out |-> <<[sec |-> "net_header"]>> \o w.lines,
              held |-> IF w.crashed THEN h1 ELSE Release("ifaddr", h1),
              err |-> <<>>,
              crashed |-> w.crashed]

\* ------------------------------------------------------------------ main
\* main, from its entry to the first get_cpu_times and its error return.
SampleFirst ==
    /\ pc = "start"
    /\ LET r == get_cpu_times(platform, host.cpu1, held) IN
       /\ out' = out \o <<[sec |-> "banner"], [sec |-> "rule"]>>
       /\ calls' = Append(calls, "cpu")
       /\ held' = r.held
       /\ IF r.ret # 0
          THEN /\ err' = err \o r.err \o <<"Failed to get initial CPU times">>
               /\ status' = EXIT_FAILURE
               /\ pc' = "done"
               /\ prev' = prev
          ELSE /\ err' = err \o r.err
               /\ status' = status
               /\ pc' = "sleep"
               /\ prev' = r.times
    /\ UNCHANGED <<platform, host, curr, cpu_usage, mem, disk>>

\* sleep(1)
Sleep ==
    /\ pc = "sleep"
    /\ calls' = Append(calls, "sleep")
    /\ pc' = "cpu2"
    /\ UNCHANGED <<platform, host, prev, curr, cpu_usage, mem, disk,
                   out, err, held, status>>

\* The second get_cpu_times and its error return.
SampleSecond ==
    /\ pc = "cpu2"
    /\ LET r == get_cpu_times(platform, host.cpu2, held) IN
       /\ calls' = Append(calls, "cpu")
       /\ held' = r.held
       /\ IF r.ret # 0
          THEN /\ err' = err \o r.err \o <<"Failed to get CPU times">>
               /\ status' = EXIT_FAILURE
               /\ pc' = "done"
               /\ curr' = curr
          ELSE /\ err' = err \o r.err
               /\ status' = status
               /\ pc' = "calc"
               /\ curr' = r.times
    /\ UNCHANGED <<platform, host, prev, cpu_usage, mem, disk, out>>

\* calc_cpu_usage(&prev, &curr) and the CPU line.
CpuUsage ==
    /\ pc = "calc"
    /\ cpu_usage' = calc_cpu_usage(platform, prev, curr)
    /\ out' = Append(out, [sec |-> "cpu", val |-> cpu_usage'])
    /\ pc' = "memory"
    /\ UNCHANGED <<platform, host, prev, curr, mem, disk, err, held,
                   calls, status>>

\* The memory section with get_memory_usage called again after a failure.
MemoryUsageRetry ==
    /\ pc = "memory"
    /\ LET r == get_memory_usage(platform, host.mem, held) IN
       /\ calls' = Append(calls, "memory")
       /\ held' = r.held
       /\ err' = err \o r.err
       /\ mem' = r.stat
       /\ IF r.ret = 0
          THEN /\ out' = Append(out, [sec |-> "mem", stat |-> r.stat])
               /\ pc' = "disk"
          ELSE /\ out' = out
               /\ pc' = IF Len(calls) < 6 THEN "memory" ELSE "disk"
    /\ UNCHANGED <<platform, host, prev, curr, cpu_usage, disk, status>>

\* The memory section of main.
MemoryUsage ==
    /\ pc = "memory"
    /\ LET r == get_memory_usage(platform, host.mem, held) IN
       /\ calls' = Append(calls, "memory")
       /\ held' = r.held
       /\ err' = err \o r.err
       /\ mem' = r.stat
       /\ out' = IF r.ret = 0
                 THEN Append(out, [sec |-> "mem", stat |-> r.stat])
                 ELSE Append(out, [sec |-> "mem_error"])
    /\ pc' = "disk"
    /\ UNCHANGED <<platform, host, prev, curr, cpu_usage, disk, status>>

\* The disk section of main.
DiskUsage ==
    /\ pc = "disk"
    /\ LET r == get_disk_usage(host.disk, held) IN
       /\ calls' = Append(calls, "disk")
       /\ held' = r.held
       /\ err' = err \o r.err
       /\ disk' = r.stat
       /\ out' = IF r.ret = 0
                 THEN Append(out, [sec |-> "disk", stat |-> r.stat])
                 ELSE Append(out, [sec |-> "disk_error"])
    /\ pc' = "network"
    /\ UNCHANGED <<platform, host, prev, curr, cpu_usage, mem, status>>

\* What has reached standard output when the process is killed after
\* printing the lines before and then printed (the "Network interfaces:"
\* header and the interface lines).  so = [tty, spilled, whole, cut] is how
\* stdio treated the stream.  A terminal is line buffered: every line
\* printed is out.  A pipe or a file is fully buffered: nothing is out
\* unless the buffer filled up while the interface lines were printed
\* (spilled; the lines of main alone never fill it), and then what was
\* written out is the text before, the header, at most so.whole interface
\* lines and, with so.cut, the start of the next one.  The end of the
\* text printed last is still in the buffer and is lost.
stdout_at_kill(so, before, printed) ==
    IF so.tty
    THEN before \o printed
    ELSE IF ~so.spilled \/ Len(printed) < 2
    THEN <<>>
    ELSE LET n == Min(1 + so.whole, Len(printed) - 1) IN
         before \o SubSeq(printed, 1, n)
             \o (IF so.cut
                 THEN <<[sec |-> "cut", name |-> printed[n + 1].name]>>
                 ELSE <<>>)

\* print_network_interfaces() and return EXIT_SUCCESS.  A process killed
\* inside the call ends with the wait status of SIGSEGV (139 to a shell).
NetworkInterfaces ==
    /\ pc = "network"
    /\ LET r == print_network_interfaces(host.net, held) IN
       /\ calls' = Append(calls, "network")
       /\ held' = r.held
       /\ err' = err \o r.err
       /\ IF r.crashed
          THEN /\ out' = stdout_at_kill(host.stdout, out, r.out)
               /\ status' = 139
               /\ pc' = "killed"
          ELSE /\ out' = out \o r.out
               /\ status' = EXIT_SUCCESS
               /\ pc' = "done"
    /\ UNCHANGED <<platform, host, prev, curr, cpu_usage, mem, disk>>

Next ==
    \/ SampleFirst
    \/ Sleep
    \/ SampleSecond
    \/ CpuUsage
    \/ MemoryUsage
    \/ DiskUsage
    \/ NetworkInterfaces

\* ------------------------------------------------------------- the hosts
\* A CPU sample of the build: intr exists only in the __FreeBSD__ struct.
Sample(plat, u, n, s, q, i) ==
    IF plat = "freebsd"
    THEN [user |-> u, nice |-> n, system |-> s, intr |-> q, idle |-> i]
    ELSE [user |-> u, nice |-> n, system |-> s, idle |-> i]

\* The kernel answer from which get_cpu_times reads the sample t: the
\* "cpu" line of /proc/stat, or kern.cp_times of a one-core machine.
CpuOk(plat, t) ==
    IF plat = "freebsd"
    THEN [size_ok |-> TRUE, nlongs |-> CPUSTATES, malloc_ok |-> TRUE,
          fill_ok |-> TRUE,
          cp_times |-> <<t.user, t.nice, t.system, t.intr, t.idle>>]
    ELSE [fopen_ok |-> TRUE, fgets_ok |-> TRUE,
          line |-> [prefix |-> TRUE,
                    nums |-> <<t.user, t.nice, t.system, t.idle>>,
                    ended |-> FALSE]]

SampleA(plat) == Sample(plat, 0, 0, 0, 0, 0)
SampleB(plat) == Sample(plat, 1, 0, 0, 0, 1)

CpuCases(plat) ==
    LET ok == CpuOk(plat, SampleA(plat)) IN
    IF plat = "freebsd"
    THEN {[ok EXCEPT !.size_ok = FALSE],
          [ok EXCEPT !.malloc_ok = FALSE],
          [ok EXCEPT !.fill_ok = FALSE],
          [ok EXCEPT !.nlongs = 0, !.cp_times = <<>>],
          ok,
          CpuOk(plat, SampleB(plat))}
    ELSE {[ok EXCEPT !.fopen_ok = FALSE],
          [ok EXCEPT !.fgets_ok = FALSE],
          [ok EXCEPT !.line.nums = <<0, 0, 0>>],
          [ok EXCEPT !.line.nums = <<>>, !.line.ended = TRUE],
          [ok EXCEPT !.line.nums = <<>>],
          [ok EXCEPT !.line.prefix = FALSE, !.line.nums = <<>>],
          ok,
          CpuOk(plat, SampleB(plat))}

MemOk(plat) ==
    IF plat = "freebsd"
    THEN [physmem_ok |-> TRUE, total_mem |-> 3, page_size |-> 1,
          free_ok |-> TRUE, free_pages |-> 1]
    ELSE [fopen_ok |-> TRUE,
          lines |-> <<[key |-> "MemTotal", kb |-> 3],
                      [key |-> "MemFree", kb |-> 1],
                      [key |-> "MemAvailable", kb |-> 2]>>]

MemCases(plat) ==
    LET ok == MemOk(plat) IN
    IF plat = "freebsd"
    THEN {ok,
          [ok EXCEPT !.physmem_ok = FALSE],
          [ok EXCEPT !.page_size = -1],
          [ok EXCEPT !.free_ok = FALSE]}
    ELSE {ok,
          [ok EXCEPT !.fopen_ok = FALSE],
          [ok EXCEPT !.lines = <<[key |-> "MemFree", kb |-> 1]>>]}

DiskOk == [ok |-> TRUE, f_blocks |-> 3, f_frsize |-> 1, f_bfree |-> 1]

DiskCases ==
    {DiskOk, [DiskOk EXCEPT !.ok = FALSE],
     [DiskOk EXCEPT !.f_blocks = 0, !.f_bfree = 0]}

Iface(name, addr, lo, mask, ntop) ==
    [ifa_name |-> name, ifa_addr |-> addr, loopback |-> lo,
     ifa_netmask |-> mask, ntop |-> ntop]

NetOk ==
    [ok |-> TRUE,
     list |-> <<Iface("lo0", "AF_INET", TRUE, "set", "ok"),
                Iface("em0", "AF_INET", FALSE, "set", "ok")>>]

NetCases ==
    {NetOk, [NetOk EXCEPT !.ok = FALSE], [NetOk EXCEPT !.list = <<>>],
     [NetOk EXCEPT !.list = <<Iface("em0", "AF_INET", FALSE, "set", "ok"),
                              Iface("tun0", "AF_INET", FALSE, "NULL", "ok"),
                              Iface("em1", "AF_INET", FALSE, "set", "ok")>>]}

\* Standard output: a terminal; a pipe or a file whose buffer never
\* filled; a pipe or a file whose buffer was written out when it filled,
\* the last time after k whole interface lines, inside the next line (c)
\* or at its start.
Terminal == [tty |-> TRUE, spilled |-> FALSE, whole |-> 0, cut |-> FALSE]
Unspilled == [tty |-> FALSE, spilled |-> FALSE, whole |-> 0, cut |-> FALSE]
Spilled(k, c) == [tty |-> FALSE, spilled |-> TRUE, whole |-> k, cut |-> c]

StdoutCases == {Terminal, Unspilled, Spilled(0, TRUE)}

\* A host on which every query succeeds.
DefaultHost(plat) ==
    [stdout |-> Terminal,
     cpu1 |-> CpuOk(plat, SampleA(plat)),
     cpu2 |-> CpuOk(plat, SampleB(plat)),
     mem |-> MemOk(plat), disk |-> DiskOk, net |-> NetOk]

\* The state main starts in on host h.
Start(plat, h) ==
    /\ platform = plat
    /\ host = h
    /\ pc = "start"
    /\ prev = Uninit
    /\ curr = Uninit
    /\ cpu_usage = Uninit
    /\ mem = NoStat
    /\ disk = NoStat
    /\ out = <<>>
    /\ err = <<>>
    /\ held = {}
    /\ calls = <<>>
    /\ status = -1

\* Every combination of the collectors' outcomes.
Init ==
    \E plat \in Platforms :
        \E h \in [stdout : StdoutCases,
                  cpu1 : CpuCases(plat), cpu2 : CpuCases(plat),
                  mem : MemCases(plat), disk : DiskCases, net : NetCases] :
            Start(plat, h)

Spec == Init /\ [][Next]_vars

\* ------------------------------------------- hosts for the single parts
\* All sequences over S of length at most n.
RECURSIVE SeqsUpTo(_, _)
SeqsUpTo(S, n) ==
    IF n = 0
    THEN {<<>>}
    ELSE LET shorter == SeqsUpTo(S, n - 1) IN
         shorter \cup {Append(q, x) : q \in shorter, x \in S}

\* The values a counter takes in InitCalc: small ones, and 2^64 - 1.
Ticks == {-1} \cup (0 .. MaxTick)

\* The samples the two get_cpu_times calls of main may return.
Samples(plat) ==
    {Sample(plat, u, n, s, q, i) :
        u \in Ticks, n \in {0, 1}, s \in {0, 1},
        q \in (IF plat = "freebsd" THEN {0, 1} ELSE {0}), i \in Ticks}

\* Every pair of CPU samples, on an otherwise healthy host.
InitCalc ==
    \E plat \in Platforms :
        \E p \in Samples(plat), c \in Samples(plat) :
            Start(plat, [DefaultHost(plat) EXCEPT !.cpu1 = CpuOk(plat, p),
                                                  !.cpu2 = CpuOk(plat, c)])

SpecCalc == InitCalc /\ [][Next]_vars

\* What the memory queries may answer.
MemInputs(plat) ==
    IF plat = "freebsd"
    THEN [physmem_ok : BOOLEAN, total_mem : 1 .. MaxKb,
          page_size : {-1, 1, 2}, free_ok : BOOLEAN,
          free_pages : 0 .. MaxKb]
    ELSE [fopen_ok : BOOLEAN,
          lines : SeqsUpTo([key : {"MemTotal", "MemAvailable", "MemFree"},
                            kb : 0 .. MaxKb], MaxLines)]

InitMem ==
    \E plat \in Platforms :
        \E m \in MemInputs(plat) :
            Start(plat, [DefaultHost(plat) EXCEPT !.mem = m])

SpecMem == InitMem /\ [][Next]_vars

\* What the two kern.cp_times queries may answer.
CpuTimesInputs ==
    UNION {[size_ok : BOOLEAN, nlongs : {n}, malloc_ok : BOOLEAN,
            fill_ok : BOOLEAN, cp_times : [1 .. n -> {0, 1}]] :
               n \in 0 .. (MaxCpus * CPUSTATES)}

InitCpuTimes ==
    \E in \in CpuTimesInputs :
        Start("freebsd", [DefaultHost("freebsd") EXCEPT !.cpu1 = in])

SpecCpuTimes == InitCpuTimes /\ [][Next]_vars

\* The entries getifaddrs may return: addresses that are printed (one on
\* an interface named lo0 without the loopback flag), one entry for each
\* reason to skip, and IPv4 entries without a netmask.
IfaceEntries ==
    {Iface("em0", "AF_INET", FALSE, "set", "ok"),
     Iface("lo0", "AF_INET", FALSE, "set", "ok"),
     Iface("lo0", "AF_INET", TRUE, "set", "ok"),
     Iface("em0", "AF_INET", FALSE, "set", "ip_fail"),
     Iface("em0", "AF_INET", FALSE, "set", "mask_fail"),
     Iface("em0", "AF_INET", FALSE, "NULL", "ok"),
     Iface("em0", "AF_INET", FALSE, "NULL", "ip_fail"),
     Iface("em0", "NULL", FALSE, "NULL", "ok"),
     Iface("lo0", "NULL", TRUE, "NULL", "ok"),
     Iface("em0", "AF_INET6", FALSE, "set", "ok"),
     Iface("lo0", "AF_INET6", TRUE, "set", "ok")}

NetInputs ==
    {[ok |-> FALSE, list |-> <<>>]}
    \cup [ok : {TRUE}, list : SeqsUpTo(IfaceEntries, MaxIfaces)]

StdoutInputs ==
    {Terminal, Unspilled}
    \cup {Spilled(k, c) : k \in 0 .. (MaxIfaces - 1), c \in BOOLEAN}

InitNet ==
    \E plat \in Platforms :
        \E n \in NetInputs, so \in StdoutInputs :
            Start(plat, [DefaultHost(plat) EXCEPT !.net = n, !.stdout = so])

SpecNet == InitNet /\ [][Next]_vars

\* ================================================================ claims
\* What each collector call of the run returns on this host.
Cpu1Ok == get_cpu_times(platform, host.cpu1, {}).ret = 0
Cpu2Ok == get_cpu_times(platform, host.cpu2, {}).ret = 0
MemCollected == get_memory_usage(platform, host.mem, {}).ret = 0
DiskCollected == get_disk_usage(host.disk, {}).ret = 0
NetCollected == host.net.ok

\* The process is over: main returned, or the process was killed.
Terminated == pc \in {"done", "killed"}

\* main has computed the CPU usage.
UsageComputed == cpu_usage # Uninit

FullOrder == <<"cpu", "sleep", "cpu", "memory", "disk", "network">>

IsPrefix(a, b) == Len(a) <= Len(b) /\ SubSeq(b, 1, Len(a)) = a

\* The lines of standard output whose kind is in kinds.
LinesOf(kinds) == SelectSeq(out, LAMBDA l : l.sec \in kinds)

\* ---- C1
\* The counters of a sample.
Counters(t) ==
    IF platform = "freebsd"
    THEN <<t.user, t.nice, t.system, t.intr, t.idle>>
    ELSE <<t.user, t.nice, t.system, t.idle>>

\* The sum of the sample's counters is below 2^64: either every counter is
\* small, or one is just below 2^64 and the sum stays below.
SumFits(t) ==
    LET c == Counters(t)
        big == Cardinality({k \in DOMAIN c : c[k] < 0})
    IN  big = 0 \/ (big = 1 /\ Total(platform, t) < 0)

\* C1 as stated (taken where neither total overflows 64 bits): whenever
\* curr.total >= prev.total, the usage is in [0, 100].
C1_Original ==
    (UsageComputed
     /\ SumFits(prev) /\ SumFits(curr)
     /\ ULeq(Total(platform, prev), Total(platform, curr)))
        => InPercentRange(cpu_usage)

\* No counter went backwards between the two samples.
FieldsMonotone ==
    \A k \in DOMAIN Counters(prev) :
        ULeq(Counters(prev)[k], Counters(curr)[k])

\* The sum of curr's counters fits the unsigned 64-bit word.
TotalFits == SumFits(curr)

\* C1, amended: for every pair of samples in which no counter of curr is
\* below the same counter of prev and curr's total does not overflow the
\* 64-bit counter width, calc_cpu_usage(prev, curr) is in [0, 100].
C1_UsageInRange ==
    (UsageComputed /\ FieldsMonotone /\ TotalFits)
        => InPercentRange(cpu_usage)

C1_Witness ==
    /\ UsageComputed /\ FieldsMonotone /\ TotalFits
    /\ cpu_usage.kind = "fin"
    /\ cpu_usage.exp = 0
    /\ 0 < cpu_usage.num
    /\ cpu_usage.num < 100 * cpu_usage.den

\* ---- C2
\* C2: calc_cpu_usage(s, s) is exactly 0.0, and whenever
\* curr.total - prev.total is 0 the result is the literal 0.0 and not the
\* outcome of a division (no NaN, no quotient over the zero delta).
C2_ZeroDelta ==
    /\ (UsageComputed /\ prev = curr) => cpu_usage = DZero
    /\ (UsageComputed /\ Total(platform, curr) - Total(platform, prev) = 0)
           => cpu_usage = DZero

C2_Witness ==
    /\ UsageComputed
    /\ prev = curr
    /\ prev.user > 0
    /\ prev.idle > 0
    /\ cpu_usage = DZero

\* ---- C3
\* C3 as stated: whenever the active delta equals the total delta the
\* usage is 100.0.
C3_Original ==
    (UsageComputed
     /\ ActiveDelta(platform, prev, curr) = TotalDelta(platform, prev, curr))
        => IsHundred(cpu_usage)

\* C3, amended: whenever the active delta equals the total delta and the
\* total delta is not zero, calc_cpu_usage(prev, curr) is 100.0.
C3_AllActive ==
    (UsageComputed
     /\ ActiveDelta(platform, prev, curr) = TotalDelta(platform, prev, curr)
     /\ TotalDelta(platform, prev, curr) # 0)
        => IsHundred(cpu_usage)

C3_Witness ==
    /\ UsageComputed
    /\ curr.idle = prev.idle
    /\ ULess(prev.user, curr.user)
    /\ FieldsMonotone
    /\ IsHundred(cpu_usage)

\* ---- C4
\* C4 as stated: when the process is over the status is 0 if every
\* collector call got its data from the host, non-zero if the first CPU
\* sample failed, and 0 whenever both CPU samples were taken, whatever
\* happened to memory, disk and network.
C4_Original ==
    Terminated =>
        /\ (Cpu1Ok /\ Cpu2Ok /\ MemCollected /\ DiskCollected /\ NetCollected)
               => status = 0
        /\ ~Cpu1Ok => status # 0
        /\ (Cpu1Ok /\ Cpu2Ok) => status = 0

\* ---- C5
\* C5 as stated: in a run that main finished with both CPU samples, each
\* failing collector among memory, disk and network has exactly one line
\* of standard output standing for its section, and every later section
\* was still collected.
C5_Original ==
    (pc = "done" /\ Cpu1Ok /\ Cpu2Ok) =>
        /\ calls = FullOrder
        /\ ~MemCollected => Len(LinesOf({"mem", "mem_error"})) = 1
        /\ ~DiskCollected => Len(LinesOf({"disk", "disk_error"})) = 1
        /\ ~NetCollected
               => Len(LinesOf({"net_header", "iface", "net_error"})) = 1

\* ---- C6
\* C6 as stated: a successful memory sample has used <= total, and on the
\* BSD-style build used is max(0, total - free_pages * page_size).
C6_Original ==
    (Len(LinesOf({"mem"})) = 1) =>
        /\ DLeq(mem.used_gb, mem.total_gb)
        /\ platform = "freebsd" =>
               mem.used_gb
                   = DKibi(Max(0, host.mem.total_mem
                                  - host.mem.free_pages * host.mem.page_size),
                           3)

\* ---- C7
\* An entry the report has a record for: a non-null IPv4 address, no
\* loopback flag, and an address and a netmask that both convert to text.
Eligible(ifa) ==
    /\ ifa.ifa_addr # "NULL"
    /\ ifa.ifa_addr = "AF_INET"
    /\ ~ifa.loopback
    /\ ifa.ifa_netmask # "NULL"
    /\ ifa.ntop = "ok"

\* C7 as stated: for every list the host returns, the walk goes through
\* (main returns) and the records printed are, in the host's order,
\* exactly the eligible entries, one record per entry.
C7_Original ==
    (Terminated /\ Cpu1Ok /\ Cpu2Ok /\ NetCollected) =>
        /\ pc = "done"
        /\ LET sel == SelectSeq(host.net.list, Eligible) IN
           LinesOf({"iface"})
               = [i \in 1 .. Len(sel) |->
                      [sec |-> "iface", name |-> sel[i].ifa_name]]

\* ---- C8
\* C8 as stated: the BSD-style get_cpu_times fails when the size query
\* fails, the fill query fails or the array describes zero cores, and
\* otherwise (the buffer allocated) succeeds with each bucket the sum over
\* the cores.
C8_Original ==
    (platform = "freebsd" /\ Len(calls) = 1) =>
        LET in == host.cpu1
            cores == in.nlongs \div CPUSTATES
        IN  /\ (~in.size_ok \/ ~in.fill_ok \/ cores = 0)
                   => (pc = "done" /\ status # 0 /\ prev = Uninit)
            /\ (in.size_ok /\ in.malloc_ok /\ in.fill_ok /\ cores > 0)
                   => /\ pc = "sleep"
                      /\ prev = [user |-> SumBucket(in.cp_times, 0, cores),
                                 nice |-> SumBucket(in.cp_times, 1, cores),
                                 system |-> SumBucket(in.cp_times, 2, cores),
                                 intr |-> SumBucket(in.cp_times, 3, cores),
                                 idle |-> SumBucket(in.cp_times, 4, cores)]

\* ---- C9
\* C9 as stated: the calls are made in the fixed order, and every run
\* makes all of them: CPU twice, memory, disk and network once each.
C9_Original ==
    /\ IsPrefix(calls, FullOrder)
    /\ Terminated => calls = FullOrder

\* C9, amended: the calls of every run are made in the fixed order CPU,
\* pause, CPU, memory, disk, network, none of them repeated after it
\* returns; a run in which both CPU samples succeed makes all of them (CPU
\* twice, memory, disk and network once each, whether they fail or not),
\* and a run in which a CPU sample fails ends with that call.
C9_CallOrder ==
    /\ IsPrefix(calls, FullOrder)
    /\ (Terminated /\ Cpu1Ok /\ Cpu2Ok) => calls = FullOrder
    /\ (Terminated /\ ~Cpu1Ok) => calls = <<"cpu">>
    /\ (Terminated /\ Cpu1Ok /\ ~Cpu2Ok) => calls = <<"cpu", "sleep", "cpu">>

C9_Witness ==
    /\ pc = "done"
    /\ Cpu1Ok /\ Cpu2Ok /\ ~MemCollected /\ ~DiskCollected
    /\ calls = FullOrder

\* ---- C10
\* C10 as stated: between collector calls and when the process is over no
\* platform handle is held, whichever way each call ended.
C10_Original == held = {}

====
